---- MODULE Spec2Model ----
(***************************************************************************)
(* Intra-process channel allocator of timely communication                 *)
(* (communication/src/allocator/process.rs): the two-phase buzzer exchange *)
(* of ProcessBuilder::build, the mutex-guarded, type-erased channel        *)
(* registry of Process::allocate, the Pusher / Puller endpoints, and      *)
(* Process::receive with the counting decorators.                          *)
(*                                                                         *)
(* Rust vectors are modelled as TLA+ sequences: element i of a Vec is      *)
(* element i+1 of the sequence (operator At).                              *)
(***************************************************************************)
EXTENDS Integers, Sequences, FiniteSets, TLC

\* ------------------------------------------------------------------ bounds
\* Largest peer count explored (new_vector(peers) is run for 1..MaxPeers).
MaxPeers == 2
\* Channel identifiers the workers may ask for are 1..MaxIds.
MaxIds == 1
\* Total number of allocate calls the workers make.
MaxCalls == 3
\* Total number of messages pushed.
MaxPush == 3
\* Total number of endpoint halves the workers destroy.
MaxDrops == 2

ChanIds == 1 .. MaxIds
\* The keys of the table the model keeps a value for (None when absent):
\* one more than the workers of most specifications ask for.
TableIds == 1 .. (MaxIds + 1)
\* Payload types T the callers instantiate allocate::<T> with.
Types == {"A", "B"}

\* Option<T>: None is the empty sequence, Some(x) the one-element sequence.
None == << >>
Some(x) == << x >>
IsSome(o) == Len(o) = 1
Unwrap(o) == o[1]

\* No thread (the Mutex is free).
NoOne == -1
\* The worker is not inside allocate.
NoArg == [id |-> 0, ty |-> "none"]
\* The worker thread has not panicked.
NoErr == "none"

VARIABLES
    peers,       \* Process.peers / ProcessBuilder.peers
    pc,          \* position of each worker thread
    bsent,       \* build: number of iterations done of the send loop
    buzzq,       \* the mpsc channels made by promise_futures: <<s, r>> -> queue
    buzzers,     \* Process.buzzers of each worker
    lock,        \* holder of the Mutex around `channels` (NoOne when free)
    poisoned,    \* poison flag of that Mutex
    channels,    \* the HashMap: channel id -> boxed entry (None when absent)
    queues,      \* the mpsc channels made by allocate: queue q is queues[q]
    arg,         \* allocate in progress: identifier and T
    vacant,      \* allocate in progress: channels.entry(identifier) was vacant
    loc,         \* allocate in progress: the locals (sends, recv, empty)
    held,        \* what each worker's allocate calls have returned, in order
    err,         \* the panic that ended a worker thread (None while it runs)
    calls,       \* history: the allocate calls each worker has made
    constructed, \* history: runs of the or_insert_with closure, per id
    pushed,      \* history: per queue, the messages sent into it
    yielded,     \* history: per queue, the messages pull returned and to whom
    npush,       \* history: number of messages pushed so far
    dropped,     \* per worker, the endpoint halves <<h, part>> it has destroyed
    counters,    \* per worker, the pending pairs of its counters_recv
    events,      \* per worker, the event queue of its inner Thread allocator
    sending,     \* per worker, the handle <<h, k>> of its push in progress
    drainlog     \* history: per worker, the state its last receive began in

\* The variables of the endpoints' lifetime and of progress counting.
evars == << dropped, counters, events, sending, drainlog >>

vars == << peers, pc, bsent, buzzq, buzzers, lock, poisoned, channels, queues,
           arg, vacant, loc, held, err, calls, constructed, pushed, yielded,
           npush, evars >>

Workers == 0 .. (peers - 1)

\* vec[i] of a Rust Vec held as a sequence.
At(vec, i) == vec[i + 1]

\* (0 .. n).map(f).collect::<Vec<_>>()
RECURSIVE Collect(_, _)
Collect(n, f) == IF n = 0 THEN << >> ELSE Append(Collect(n - 1, f), f[n - 1])

\* ------------------------------------------------------------------ builder

\* Buzzer::new(): a wake handle for the calling thread; `serial` tells the
\* instances one worker creates apart.
BuzzerNew(w, serial) == [target |-> w, serial |-> serial]

\* promise_futures(peers, peers): sender r of row s and receiver s of row r
\* are the two ends of one channel, named <<s, r>>.
promise_futures(n) ==
    [send |-> [s \in 0 .. (n - 1) |-> Collect(n, [r \in 0 .. (n - 1) |-> << s, r >>])],
     recv |-> [r \in 0 .. (n - 1) |-> Collect(n, [s \in 0 .. (n - 1) |-> << s, r >>])]]

\* Process::new_vector: the builders' buzzer endpoints.
buzzers_send(w) == promise_futures(peers).send[w]
buzzers_recv(w) == promise_futures(peers).recv[w]

\* Process::new_vector(peers): one builder per worker, no channel allocated.
new_vector(n) ==
    /\ peers = n
    /\ pc = [w \in 0 .. (n - 1) |-> "send"]
    /\ bsent = [w \in 0 .. (n - 1) |-> 0]
    /\ buzzq = [ch \in (0 .. (n - 1)) \X (0 .. (n - 1)) |-> << >>]
    /\ buzzers = [w \in 0 .. (n - 1) |-> << >>]
    /\ lock = NoOne
    /\ poisoned = FALSE
    /\ channels = [c \in TableIds |-> None]
    /\ queues = << >>
    /\ arg = [w \in 0 .. (n - 1) |-> NoArg]
    /\ vacant = [w \in 0 .. (n - 1) |-> FALSE]
    /\ loc = [w \in 0 .. (n - 1) |-> None]
    /\ held = [w \in 0 .. (n - 1) |-> << >>]
    /\ err = [w \in 0 .. (n - 1) |-> NoErr]
    /\ calls = [w \in 0 .. (n - 1) |-> << >>]
    /\ constructed = [c \in TableIds |-> 0]
    /\ pushed = << >>
    /\ yielded = << >>
    /\ npush = 0
    /\ dropped = [w \in 0 .. (n - 1) |-> {}]
    /\ counters = [w \in 0 .. (n - 1) |-> << >>]
    /\ events = [w \in 0 .. (n - 1) |-> << >>]
    /\ sending = [w \in 0 .. (n - 1) |-> None]
    /\ drainlog = [w \in 0 .. (n - 1) |-> None]

Init == \E n \in 1 .. MaxPeers : new_vector(n)

\* Sender::send on an unbounded mpsc channel never waits for the receiver.
SendRendezvous(w, ch) == pc[ch[2]] = "recv" /\ Len(buzzers[ch[2]]) = ch[1]
SendReady(w, ch) == TRUE

\* Vec::push
VecPushFront(vec, x) == << x >> \o vec
VecPush(vec, x) == Append(vec, x)

\* build, first loop: one iteration, `worker.send(Buzzer::new())`.
BuildSend(w) ==
    /\ pc[w] = "send"
    /\ LET k == bsent[w]
           ch == At(buzzers_send(w), k)
       IN  /\ SendReady(w, ch)
           /\ buzzq' = [buzzq EXCEPT ![ch] = Append(@, BuzzerNew(w, k))]
           /\ bsent' = [bsent EXCEPT ![w] = k + 1]
           /\ pc' = [pc EXCEPT ![w] = IF k + 1 = peers THEN "recv" ELSE "send"]
    /\ UNCHANGED << evars, peers, buzzers, lock, poisoned, channels, queues, arg,
                    vacant, loc, held, err, calls, constructed, pushed,
                    yielded, npush >>

\* build, second loop: one iteration, `buzzers.push(worker.recv())`; recv
\* blocks while the channel is empty.  After the last one the Process exists.
BuildRecv(w) ==
    /\ pc[w] = "recv"
    /\ LET k == Len(buzzers[w])
           ch == At(buzzers_recv(w), k)
       IN  /\ buzzq[ch] # << >>
           /\ buzzers' = [buzzers EXCEPT ![w] = VecPush(@, Head(buzzq[ch]))]
           /\ buzzq' = [buzzq EXCEPT ![ch] = Tail(@)]
           /\ pc' = [pc EXCEPT ![w] = IF k + 1 = peers THEN "ready" ELSE "recv"]
    /\ UNCHANGED << evars, peers, bsent, lock, poisoned, channels, queues, arg,
                    vacant, loc, held, err, calls, constructed, pushed,
                    yielded, npush >>

\* ----------------------------------------------------------------- allocate

\* (mutant) the guard of a panicking thread is released without poisoning.
PanicNoPoison(w, kind) ==
    /\ pc' = [pc EXCEPT ![w] = "failed"]
    /\ err' = [err EXCEPT ![w] = kind]
    /\ lock' = IF lock = w THEN NoOne ELSE lock
    /\ poisoned' = poisoned
    /\ arg' = [arg EXCEPT ![w] = NoArg]
    /\ vacant' = [vacant EXCEPT ![w] = FALSE]
    /\ loc' = [loc EXCEPT ![w] = None]

\* A panic of thread w: the thread ends; a MutexGuard it holds is dropped
\* while panicking, which poisons and releases the Mutex.  The endpoints
\* allocate returned earlier belong to its caller and are kept as they are.
Panic(w, kind) ==
    /\ pc' = [pc EXCEPT ![w] = "failed"]
    /\ err' = [err EXCEPT ![w] = kind]
    /\ lock' = IF lock = w THEN NoOne ELSE lock
    /\ poisoned' = (poisoned \/ lock = w)
    /\ arg' = [arg EXCEPT ![w] = NoArg]
    /\ vacant' = [vacant EXCEPT ![w] = FALSE]
    /\ loc' = [loc EXCEPT ![w] = None]

\* Number of allocate calls made so far.
RECURSIVE CallsOfFirst(_)
CallsOfFirst(n) == IF n = 0 THEN 0 ELSE Len(calls[n - 1]) + CallsOfFirst(n - 1)
TotalCalls == CallsOfFirst(peers)

\* A worker calls allocate::<T>(identifier) on its Process, while fewer than
\* `budget` calls have been made.
CallWithin(w, c, T, budget) ==
    /\ pc[w] = "ready"
    /\ TotalCalls < budget
    /\ pc' = [pc EXCEPT ![w] = "lock"]
    /\ arg' = [arg EXCEPT ![w] = [id |-> c, ty |-> T]]
    /\ calls' = [calls EXCEPT ![w] = Append(@, [id |-> c, ty |-> T])]
    /\ UNCHANGED << evars, peers, bsent, buzzq, buzzers, lock, poisoned, channels,
                    queues, vacant, loc, held, err, constructed, pushed,
                    yielded, npush >>

Call(w, c, T) == CallWithin(w, c, T, MaxCalls)

\* (mutant) no mutual exclusion.
LockFreeAlways(w) == TRUE

\* The Mutex can be taken by w.
LockFree(w) == lock = NoOne

\* (mutant) the poison flag is ignored.
LockIgnorePoison(w) ==
    /\ pc[w] = "lock"
    /\ lock = NoOne
    /\ lock' = w
    /\ pc' = [pc EXCEPT ![w] = "entry"]
    /\ UNCHANGED << evars, peers, bsent, buzzq, buzzers, poisoned, channels, queues,
                    arg, vacant, loc, held, err, calls, constructed, pushed,
                    yielded, npush >>

\* self.channels.lock().ok().expect("mutex error?"): blocks while another
\* thread holds the Mutex; a poisoned Mutex makes lock() an Err.
Lock(w) ==
    /\ pc[w] = "lock"
    /\ LockFree(w)
    /\ IF poisoned
         THEN /\ Panic(w, "RegistryLockCorrupted")
         ELSE /\ lock' = w
              /\ pc' = [pc EXCEPT ![w] = "entry"]
              /\ UNCHANGED << poisoned, arg, vacant, loc, err >>
    /\ UNCHANGED << evars, peers, bsent, buzzq, buzzers, channels, queues, held,
                    calls, constructed, pushed, yielded, npush >>

\* channels.entry(identifier): vacant or occupied.
Entry(w) ==
    /\ pc[w] = "entry"
    /\ vacant' = [vacant EXCEPT ![w] = ~IsSome(channels[arg[w].id])]
    /\ pc' = [pc EXCEPT ![w] =
                IF IsSome(channels[arg[w].id]) THEN "downcast" ELSE "construct"]
    /\ UNCHANGED << evars, peers, bsent, buzzq, buzzers, lock, poisoned, channels,
                    queues, arg, loc, held, err, calls, constructed, pushed,
                    yielded, npush >>

\* (mutant) slot i is given the puller of the next destination.
to_box_rotated(w, base) ==
    LET pushers == Collect(peers, [i \in Workers |->
                      [target |-> base + i + 1, buzzer |-> At(buzzers[w], i)]])
        pullers == Collect(peers, [i \in Workers |->
                      [source |-> base + i + 1, current |-> None]])
    IN  Collect(peers, [i \in Workers |->
            Some([sends |-> pushers, recv |-> At(pullers, (i + 1) % peers)])])

\* (mutant) every pusher is paired with the buzzer of the constructing worker.
to_box_winner(w, base) ==
    LET pushers == Collect(peers, [i \in Workers |->
                      [target |-> base + i + 1, buzzer |-> At(buzzers[w], w)]])
        pullers == Collect(peers, [i \in Workers |->
                      [source |-> base + i + 1, current |-> None]])
    IN  Collect(peers, [i \in Workers |->
            Some([sends |-> pushers, recv |-> At(pullers, i)])])

\* The closure given to or_insert_with, run by worker w: `peers` new mpsc
\* channels numbered base+1 .. base+peers, pusher i paired with
\* self.buzzers[i], and one Some((pushers.clone(), puller)) per puller.
to_box(w, base) ==
    LET pushers == Collect(peers, [i \in Workers |->
                      [target |-> base + i + 1, buzzer |-> At(buzzers[w], i)]])
        pullers == Collect(peers, [i \in Workers |->
                      [source |-> base + i + 1, current |-> None]])
    IN  Collect(peers, [i \in Workers |->
            Some([sends |-> pushers, recv |-> At(pullers, i)])])

\* (mutant) the queues of the first construction are handed out again.
StaleBase(qs) == 0

\* channel(): each call makes a queue that did not exist; the queues of one
\* construction are numbered from the count of those made so far.
FreshBase(qs) == Len(qs)

\* or_insert_with on a vacant entry: run the closure and insert its Box,
\* whose type identity is that of the caller's T.
Construct(w) ==
    /\ pc[w] = "construct"
    /\ LET c == arg[w].id
           base == FreshBase(queues)
       IN  /\ channels' = [channels EXCEPT ![c] =
                  Some([ty |-> arg[w].ty, vector |-> to_box(w, base)])]
           /\ queues' = queues \o [i \in 1 .. peers |-> << >>]
           /\ pushed' = pushed \o [i \in 1 .. peers |-> << >>]
           /\ yielded' = yielded \o [i \in 1 .. peers |-> << >>]
           /\ constructed' = [constructed EXCEPT ![c] = @ + 1]
    /\ pc' = [pc EXCEPT ![w] = "downcast"]
    /\ UNCHANGED << evars, peers, bsent, buzzq, buzzers, lock, poisoned, arg, vacant,
                    loc, held, err, calls, npush >>

\* (mutant) an unchecked downcast.
downcast_unchecked(entry, T) == Some(entry.vector)

\* entry.downcast_mut::<Vec<Option<(Vec<(Pusher<Message<T>>, Buzzer)>,
\* Puller<Message<T>>)>>>(): Some exactly when the Box was built for T.
downcast_mut(entry, T) == IF entry.ty = T THEN Some(entry.vector) ELSE None

Downcast(w) ==
    /\ pc[w] = "downcast"
    /\ IF IsSome(downcast_mut(Unwrap(channels[arg[w].id]), arg[w].ty))
         THEN /\ pc' = [pc EXCEPT ![w] = "take"]
              /\ UNCHANGED << lock, poisoned, arg, vacant, loc, err >>
         ELSE Panic(w, "TypeMismatch")
    /\ UNCHANGED << evars, peers, bsent, buzzq, buzzers, channels, queues, held,
                    calls, constructed, pushed, yielded, npush >>

\* vector.iter().all(|x| x.is_none())
AllNone(vector) == \A i \in 1 .. Len(vector) : ~IsSome(vector[i])

\* (mutant) the slot is cloned, not taken.
TakeClone(w) ==
    /\ pc[w] = "take"
    /\ LET c == arg[w].id
           vector == Unwrap(channels[c]).vector
       IN  IF IsSome(At(vector, w))
             THEN /\ loc' = [loc EXCEPT ![w] =
                         Some([sends |-> Unwrap(At(vector, w)).sends,
                               recv |-> Unwrap(At(vector, w)).recv,
                               empty |-> AllNone(vector)])]
                  /\ pc' = [pc EXCEPT ![w] = "remove"]
                  /\ UNCHANGED << lock, poisoned, arg, vacant, err >>
             ELSE /\ Panic(w, "SlotAlreadyConsumed")
    /\ UNCHANGED << evars, peers, bsent, buzzq, buzzers, channels, queues, held,
                    calls, constructed, pushed, yielded, npush >>

\* vector[self.index].take().expect("channel already consumed"), then the
\* computation of `empty`.
Take(w) ==
    /\ pc[w] = "take"
    /\ LET c == arg[w].id
           vector == Unwrap(channels[c]).vector
           taken == [vector EXCEPT ![w + 1] = None]
       IN  IF IsSome(At(vector, w))
             THEN /\ channels' = [channels EXCEPT ![c] =
                         Some([Unwrap(@) EXCEPT !.vector = taken])]
                  /\ loc' = [loc EXCEPT ![w] =
                         Some([sends |-> Unwrap(At(vector, w)).sends,
                               recv |-> Unwrap(At(vector, w)).recv,
                               empty |-> AllNone(taken)])]
                  /\ pc' = [pc EXCEPT ![w] = "remove"]
                  /\ UNCHANGED << lock, poisoned, arg, vacant, err >>
             ELSE /\ Panic(w, "SlotAlreadyConsumed")
                  /\ UNCHANGED channels
    /\ UNCHANGED << evars, peers, bsent, buzzq, buzzers, queues, held, calls,
                    constructed, pushed, yielded, npush >>

\* (mutant) the entry is removed by the first worker that takes its slot.
RemoveEarly(w) ==
    /\ pc[w] = "remove"
    /\ channels' = [channels EXCEPT ![arg[w].id] = None]
    /\ pc' = [pc EXCEPT ![w] = "wrap"]
    /\ UNCHANGED << evars, peers, bsent, buzzq, buzzers, lock, poisoned, queues, arg,
                    vacant, loc, held, err, calls, constructed, pushed,
                    yielded, npush >>

\* (mutant) the drained entry is left in the table.
RemoveNever(w) ==
    /\ pc[w] = "remove"
    /\ pc' = [pc EXCEPT ![w] = "wrap"]
    /\ UNCHANGED << evars, peers, bsent, buzzq, buzzers, lock, poisoned, channels,
                    queues, arg, vacant, loc, held, err, calls, constructed,
                    pushed, yielded, npush >>

\* if empty { channels.remove(&identifier); }
Remove(w) ==
    /\ pc[w] = "remove"
    /\ channels' = IF Unwrap(loc[w]).empty
                     THEN [channels EXCEPT ![arg[w].id] = None]
                     ELSE channels
    /\ pc' = [pc EXCEPT ![w] = "wrap"]
    /\ UNCHANGED << evars, peers, bsent, buzzq, buzzers, lock, poisoned, queues, arg,
                    vacant, loc, held, err, calls, constructed, pushed,
                    yielded, npush >>

\* CountPusher::new(s, identifier, self.counters_send[i].clone(), b) for the
\* i-th (s, b) of `sends`; counters_send[i] feeds worker i's counters_recv.
WrapSends(w, sends, identifier) ==
    Collect(Len(sends), [i \in 0 .. (Len(sends) - 1) |->
        [pusher |-> [target |-> At(sends, i).target],
         index |-> identifier,
         counters |-> i,
         buzzer |-> At(sends, i).buzzer]])

\* CountPuller::new(recv, identifier, self.inner.events().clone())
WrapRecv(w, recv, identifier) ==
    [puller |-> recv, index |-> identifier, events |-> w]

\* (mutant) the MutexGuard outlives the call.
WrapKeepsLock(w) ==
    /\ pc[w] = "wrap"
    /\ held' = [held EXCEPT ![w] = Append(@,
                  [id |-> arg[w].id,
                   ty |-> arg[w].ty,
                   sends |-> WrapSends(w, Unwrap(loc[w]).sends, arg[w].id),
                   recv |-> WrapRecv(w, Unwrap(loc[w]).recv, arg[w].id)])]
    /\ lock' = lock
    /\ pc' = [pc EXCEPT ![w] = "ready"]
    /\ arg' = [arg EXCEPT ![w] = NoArg]
    /\ vacant' = [vacant EXCEPT ![w] = FALSE]
    /\ loc' = [loc EXCEPT ![w] = None]
    /\ UNCHANGED << evars, peers, bsent, buzzq, buzzers, poisoned, channels, queues,
                    err, calls, constructed, pushed, yielded, npush >>

\* The wrapping of the endpoints and the return; the MutexGuard `channels` is
\* dropped on return.
Wrap(w) ==
    /\ pc[w] = "wrap"
    /\ held' = [held EXCEPT ![w] = Append(@,
                  [id |-> arg[w].id,
                   ty |-> arg[w].ty,
                   sends |-> WrapSends(w, Unwrap(loc[w]).sends, arg[w].id),
                   recv |-> WrapRecv(w, Unwrap(loc[w]).recv, arg[w].id)])]
    /\ lock' = IF lock = w THEN NoOne ELSE lock
    /\ pc' = [pc EXCEPT ![w] = "ready"]
    /\ arg' = [arg EXCEPT ![w] = NoArg]
    /\ vacant' = [vacant EXCEPT ![w] = FALSE]
    /\ loc' = [loc EXCEPT ![w] = None]
    /\ UNCHANGED << evars, peers, bsent, buzzq, buzzers, poisoned, channels, queues,
                    err, calls, constructed, pushed, yielded, npush >>

\* ---------------------------------------------------------------- endpoints
\* Pusher and Puller themselves.  Push and Pull below are calls that reach
\* them; what the counting decorators add around such a call (the progress
\* pair and the wake) is in the steps of "counting and waking".

\* (mutant) the element overtakes what is pending.
PusherPushFront(queue, element) == << element >> \o queue

\* Pusher::push with Some(element): self.target.send(element).
PusherPush(queue, element) == Append(queue, element)

\* Result<T, E>.
Ok(x) == << "Ok", x >>
Err(e) == << "Err", e >>
IsOk(r) == r[1] = "Ok"
\* Result::ok
ok(r) == IF IsOk(r) THEN Some(r[2]) ELSE None

\* (mutant) a Receiver parked in the registry does not count.
RxHeld(q) ==
    \E w \in Workers : \E h \in 1 .. Len(held[w]) :
        /\ held[w][h].recv.puller.source = q
        /\ << h, "recv" >> \notin dropped[w]

\* The Receiver of queue q exists: in an untaken slot of the registry, in the
\* locals of a running allocate, or in a bundle whose consumer is not
\* destroyed.
RxAlive(q) ==
    \/ \E c \in TableIds :
          /\ IsSome(channels[c])
          /\ \E i \in 1 .. Len(Unwrap(channels[c]).vector) :
                LET slot == Unwrap(channels[c]).vector[i]
                IN  IsSome(slot) /\ Unwrap(slot).recv.source = q
    \/ \E w \in Workers : IsSome(loc[w]) /\ Unwrap(loc[w]).recv.source = q
    \/ \E w \in Workers : \E h \in 1 .. Len(held[w]) :
          /\ held[w][h].recv.puller.source = q
          /\ << h, "recv" >> \notin dropped[w]

\* (mutant) a send never finds its channel closed.
RxConnectedAlways(q) == TRUE

\* mpsc: the channel of queue q is connected for its senders.
RxConnected(q) == RxAlive(q)

\* Some Sender of queue q exists: every untaken slot, every running allocate
\* and every bundle of q's construction has a clone of it.
TxAlive(q) ==
    \/ \E c \in TableIds :
          /\ IsSome(channels[c])
          /\ \E i \in 1 .. Len(Unwrap(channels[c]).vector) :
                LET slot == Unwrap(channels[c]).vector[i]
                IN  /\ IsSome(slot)
                    /\ \E k \in 1 .. Len(Unwrap(slot).sends) :
                          Unwrap(slot).sends[k].target = q
    \/ \E w \in Workers :
          /\ IsSome(loc[w])
          /\ \E k \in 1 .. Len(Unwrap(loc[w]).sends) :
                Unwrap(loc[w]).sends[k].target = q
    \/ \E w \in Workers : \E h \in 1 .. Len(held[w]) :
          /\ << h, "sends" >> \notin dropped[w]
          /\ \E k \in 1 .. Len(held[w][h].sends) :
                held[w][h].sends[k].pusher.target = q

\* (mutant) the payload is accepted and lost.
send_lost(queue, element, connected) == Ok(queue)

\* Sender::send: Err(SendError(element)) exactly when the Receiver is gone.
send(queue, element, connected) ==
    IF connected THEN Ok(PusherPush(queue, element)) ELSE Err(element)

\* (mutant) the payload is sent and also left with the caller.
push_keep(queue, element, connected) ==
    IF IsSome(element)
      THEN [queue |-> PusherPush(PusherPush(queue, Unwrap(element)),
                                 Unwrap(element)),
            element |-> element, panics |-> FALSE]
      ELSE [queue |-> queue, element |-> element, panics |-> FALSE]

\* Pusher::push(&mut self, element: &mut Option<T>): element.take(), and for
\* Some(element) self.target.send(element).unwrap().  The result names the
\* queue and the caller's option afterwards, and whether unwrap panicked.
push(queue, element, connected) ==
    IF IsSome(element)
      THEN LET sent == send(queue, Unwrap(element), connected)
           IN  [queue |-> IF IsOk(sent) THEN sent[2] ELSE queue,
                element |-> None,
                panics |-> ~IsOk(sent)]
      ELSE [queue |-> queue, element |-> element, panics |-> FALSE]

\* Worker w calls push on producer handle k of the h-th bundle it holds, with
\* Some(message) or None.  The payload names its sender and a serial number.
Push(w, h, k) ==
    /\ pc[w] = "ready"
    /\ h \in 1 .. Len(held[w])
    /\ << h, "sends" >> \notin dropped[w]
    /\ \E some \in BOOLEAN :
          LET q == At(held[w][h].sends, k).pusher.target
              m == [from |-> w, n |-> npush + 1]
              element == IF some THEN Some(m) ELSE None
              r == push(queues[q], element, RxConnected(q))
          IN  /\ some => npush < MaxPush
              /\ npush' = IF some THEN npush + 1 ELSE npush
              /\ IF r.panics
                   THEN /\ Panic(w, "ChannelDisconnected")
                        /\ UNCHANGED << queues, pushed >>
                   ELSE /\ queues' = [queues EXCEPT ![q] = r.queue]
                        /\ pushed' = [pushed EXCEPT ![q] =
                                         IF some THEN Append(@, m) ELSE @]
                        /\ UNCHANGED << pc, lock, poisoned, arg, vacant, loc,
                                        err >>
    /\ UNCHANGED << evars, peers, bsent, buzzq, buzzers, channels, held, calls,
                    constructed, yielded >>

\* Receiver::try_recv: the oldest pending message; Err(Empty) when nothing is
\* pending and a Sender exists, Err(Disconnected) when none does.
try_recv(queue, connected) ==
    IF queue # << >> THEN Ok(Head(queue))
    ELSE IF connected THEN Err("Empty") ELSE Err("Disconnected")

\* (mutant) a pull that finds nothing keeps the value it yielded before.
pull_sticky(puller, queue, connected) ==
    LET got == ok(try_recv(queue, connected))
    IN  [current |-> IF IsSome(got) THEN got ELSE puller.current,
         queue |-> IF IsSome(got) THEN Tail(queue) ELSE queue]

\* Puller::pull: self.current = self.source.try_recv().ok(); &mut
\* self.current.  The result names self.current afterwards and the queue.
pull(puller, queue, connected) ==
    LET got == ok(try_recv(queue, connected))
    IN  [current |-> got,
         queue |-> IF IsSome(got) THEN Tail(queue) ELSE queue]

\* Worker w calls pull on the consumer of the h-th bundle it holds.
Pull(w, h) ==
    /\ pc[w] = "ready"
    /\ h \in 1 .. Len(held[w])
    /\ << h, "recv" >> \notin dropped[w]
    /\ LET q == held[w][h].recv.puller.source
           r == pull(held[w][h].recv.puller, queues[q], TxAlive(q))
       IN  /\ held' = [held EXCEPT ![w][h].recv.puller.current = r.current]
           /\ queues' = [queues EXCEPT ![q] = r.queue]
           /\ yielded' = [yielded EXCEPT ![q] =
                            IF IsSome(r.current)
                              THEN Append(@, [by |-> w,
                                              val |-> Unwrap(r.current)])
                              ELSE @]
    /\ UNCHANGED << evars, peers, pc, bsent, buzzq, buzzers, lock, poisoned,
                    channels, arg, vacant, loc, err, calls, constructed,
                    pushed, npush >>

\* Number of endpoint halves destroyed so far.
RECURSIVE DropsOfFirst(_)
DropsOfFirst(n) ==
    IF n = 0 THEN 0 ELSE Cardinality(dropped[n - 1]) + DropsOfFirst(n - 1)
TotalDrops == DropsOfFirst(peers)

\* Worker w destroys one half of the h-th bundle it holds: its Vec of
\* producer handles ("sends") or its consumer ("recv").  A thread that
\* panicked drops what it owns while unwinding.  The consumer holds the only
\* Receiver of its channel, and destroying an mpsc Receiver destroys the
\* messages still pending in the channel; destroying Senders leaves them.
Drop(w, h, part) ==
    /\ pc[w] \in {"ready", "failed"}
    /\ h \in 1 .. Len(held[w])
    /\ << h, part >> \notin dropped[w]
    /\ TotalDrops < MaxDrops
    /\ dropped' = [dropped EXCEPT ![w] = @ \cup {<< h, part >>}]
    /\ queues' = IF part = "recv"
                  THEN [queues EXCEPT ![held[w][h].recv.puller.source] = << >>]
                  ELSE queues
    /\ UNCHANGED << counters, events, sending, drainlog, peers, pc, bsent,
                    buzzq, buzzers, lock, poisoned, channels, arg,
                    vacant, loc, held, err, calls, constructed, pushed,
                    yielded, npush >>

\* ------------------------------------------------- counting and waking
\* The endpoints allocate returns are the counting decorators around Pusher
\* and Puller.  The steps below follow one call of the decorated push and
\* pull and of receive.

\* A pair (index, Event::Pushed(1)) or (index, Event::Pulled(1)); `of` is the
\* serial number of the message counted, kept to tell the pairs apart.
Pair(identifier, kind, m) == [index |-> identifier, event |-> kind, of |-> m.n]

\* CountPusher::push, first: the underlying Pusher::push of Some(message)
\* on handle k of the h-th bundle w holds.
CountPushSend(w, h, k) ==
    /\ pc[w] = "ready"
    /\ npush < MaxPush
    /\ h \in 1 .. Len(held[w])
    /\ << h, "sends" >> \notin dropped[w]
    /\ LET q == At(held[w][h].sends, k).pusher.target
           m == [from |-> w, n |-> npush + 1]
           r == push(queues[q], Some(m), RxConnected(q))
       IN  IF r.panics
             THEN /\ Panic(w, "ChannelDisconnected")
                  /\ UNCHANGED << queues, pushed, sending >>
             ELSE /\ queues' = [queues EXCEPT ![q] = r.queue]
                  /\ pushed' = [pushed EXCEPT ![q] = Append(@, m)]
                  /\ pc' = [pc EXCEPT ![w] = "count"]
                  /\ sending' = [sending EXCEPT ![w] = Some(<< h, k, m >>)]
                  /\ UNCHANGED << lock, poisoned, arg, vacant, loc, err >>
    /\ npush' = npush + 1
    /\ UNCHANGED << dropped, counters, events, drainlog, peers,
                    bsent, buzzq, buzzers, channels, held, calls, constructed,
                    yielded >>

\* CountPusher::push, second: the pair is sent into the counters inbox the
\* handle was bound to; the result of the send is ignored.
CountPushEvent(w) ==
    /\ pc[w] = "count"
    /\ LET h == Unwrap(sending[w])[1]
           k == Unwrap(sending[w])[2]
           m == Unwrap(sending[w])[3]
           handle == At(held[w][h].sends, k)
       IN  counters' = [counters EXCEPT ![handle.counters] =
                           Append(@, Pair(handle.index, "Pushed", m))]
    /\ pc' = [pc EXCEPT ![w] = "buzz"]
    /\ UNCHANGED << dropped, events, sending, drainlog, peers,
                    bsent, buzzq, buzzers, lock, poisoned, channels, queues,
                    arg, vacant, loc, held, err, calls, constructed, pushed,
                    yielded, npush >>

\* CountPusher::push, third: the buzzer paired with the handle is buzzed and
\* push returns.  The model keeps no state of the woken thread: what a wake
\* does to it is the business of Buzzer and of the wait of the inner Thread.
CountPushBuzz(w) ==
    /\ pc[w] = "buzz"
    /\ pc' = [pc EXCEPT ![w] = "ready"]
    /\ sending' = [sending EXCEPT ![w] = None]
    /\ UNCHANGED << dropped, counters, events, drainlog, peers, bsent, buzzq,
                    buzzers, lock, poisoned, channels, queues, arg, vacant,
                    loc, held, err, calls, constructed, pushed, yielded,
                    npush >>

\* CountPuller::pull: the underlying Puller::pull, and after a successful
\* pull a pair recorded into the event queue the consumer was bound to.
CountPull(w, h) ==
    /\ pc[w] = "ready"
    /\ h \in 1 .. Len(held[w])
    /\ << h, "recv" >> \notin dropped[w]
    /\ LET q == held[w][h].recv.puller.source
           r == pull(held[w][h].recv.puller, queues[q], TxAlive(q))
       IN  /\ held' = [held EXCEPT ![w][h].recv.puller.current = r.current]
           /\ queues' = [queues EXCEPT ![q] = r.queue]
           /\ yielded' = [yielded EXCEPT ![q] =
                            IF IsSome(r.current)
                              THEN Append(@, [by |-> w,
                                              val |-> Unwrap(r.current)])
                              ELSE @]
           /\ events' = [events EXCEPT ![held[w][h].recv.events] =
                            IF IsSome(r.current)
                              THEN Append(@, Pair(held[w][h].recv.index,
                                                  "Pulled", Unwrap(r.current)))
                              ELSE @]
    /\ UNCHANGED << dropped, counters, sending, drainlog, peers,
                    pc, bsent, buzzq, buzzers, lock, poisoned, channels, arg,
                    vacant, loc, err, calls, constructed, pushed, npush >>

\* Process::receive is called: the event queue is borrowed.
Receive(w) ==
    /\ pc[w] = "ready"
    /\ pc' = [pc EXCEPT ![w] = "drain"]
    /\ drainlog' = [drainlog EXCEPT ![w] =
                       Some([inbox |-> counters[w], events |-> events[w]])]
    /\ UNCHANGED << dropped, counters, events, sending, peers,
                    bsent, buzzq, buzzers, lock, poisoned, channels, queues,
                    arg, vacant, loc, held, err, calls, constructed, pushed,
                    yielded, npush >>

\* (mutant) the pair is put at the front of the event queue.
push_front(queue, pair) == << pair >> \o queue

\* VecDeque::push_back
push_back(queue, pair) == Append(queue, pair)

\* One evaluation of `while let Ok((index, event)) =
\* self.counters_recv.try_recv()`: the body for Ok, the return otherwise.
\* The Process holds a Sender of its own inbox, which is never closed.
ReceiveStep(w) ==
    /\ pc[w] = "drain"
    /\ LET got == try_recv(counters[w], TRUE)
       IN  IF IsOk(got)
             THEN /\ events' = [events EXCEPT ![w] = push_back(@, got[2])]
                  /\ counters' = [counters EXCEPT ![w] = Tail(@)]
                  /\ pc' = pc
             ELSE /\ pc' = [pc EXCEPT ![w] = "ready"]
                  /\ UNCHANGED << events, counters >>
    /\ UNCHANGED << dropped, sending, drainlog, peers, bsent,
                    buzzq, buzzers, lock, poisoned, channels, queues, arg,
                    vacant, loc, held, err, calls, constructed, pushed,
                    yielded, npush >>

\* The registry protocol alone: build and allocate.
NextRegistry ==
    \/ \E w \in Workers : BuildSend(w)
    \/ \E w \in Workers : BuildRecv(w)
    \/ \E w \in Workers : Lock(w)
    \/ \E w \in Workers : Entry(w)
    \/ \E w \in Workers : Construct(w)
    \/ \E w \in Workers : Downcast(w)
    \/ \E w \in Workers : Take(w)
    \/ \E w \in Workers : Remove(w)
    \/ \E w \in Workers : Wrap(w)

NextAlloc ==
    \/ \E w \in Workers, c \in ChanIds, T \in Types : Call(w, c, T)
    \/ NextRegistry

\* The use of the endpoints allocate returned.
NextEndpoints ==
    \/ \E w \in Workers, h \in 1 .. MaxCalls, k \in Workers : Push(w, h, k)
    \/ \E w \in Workers, h \in 1 .. MaxCalls : Pull(w, h)

Next ==
    \/ NextAlloc
    \/ NextEndpoints

Spec == Init /\ [][Next]_vars

\* Workers that build and allocate and exchange no message.
AllocSpec == Init /\ [][NextAlloc]_vars

\* Every worker thread that can take a step of build eventually takes one.
BuildFair ==
    \A w \in 0 .. (MaxPeers - 1) :
        WF_vars(w \in Workers /\ (BuildSend(w) \/ BuildRecv(w)))

FairAllocSpec == AllocSpec /\ BuildFair

\* Workers that exchange messages after one allocate call less.
NextExchange ==
    \/ \E w \in Workers, c \in ChanIds, T \in Types :
          CallWithin(w, c, T, MaxCalls - 1)
    \/ NextRegistry
    \/ NextEndpoints

\* Every worker thread that can take a step of build or of a running
\* allocate eventually takes one, and a worker whose consumer has a message
\* pending eventually pulls from it.
ExchangeFair ==
    \A w \in 0 .. (MaxPeers - 1) :
        /\ WF_vars(w \in Workers /\
                     (\/ BuildSend(w) \/ BuildRecv(w) \/ Lock(w) \/ Entry(w)
                      \/ Construct(w) \/ Downcast(w) \/ Take(w) \/ Remove(w)
                      \/ Wrap(w)))
        /\ \A h \in 1 .. MaxCalls : WF_vars(w \in Workers /\ Pull(w, h))

FairSpec == Init /\ [][NextExchange]_vars /\ ExchangeFair

\* Workers that build and allocate, over one more identifier and with one
\* more allocate call.
NextWide ==
    \/ \E w \in Workers, c \in TableIds, T \in Types :
          CallWithin(w, c, T, MaxCalls + 1)
    \/ NextRegistry

WideSpec == Init /\ [][NextWide]_vars

\* Every worker thread that can take a step of build or of a running
\* allocate eventually takes one.
AllocFair ==
    \A w \in 0 .. (MaxPeers - 1) :
        WF_vars(w \in Workers /\
                 (\/ BuildSend(w) \/ BuildRecv(w) \/ Lock(w) \/ Entry(w)
                  \/ Construct(w) \/ Downcast(w) \/ Take(w) \/ Remove(w)
                  \/ Wrap(w)))

FairWideSpec == WideSpec /\ AllocFair

\* Workers that use the decorated endpoints and drain their counters, after
\* two allocate calls less.
NextEvent ==
    \/ \E w \in Workers, c \in ChanIds, T \in Types :
          CallWithin(w, c, T, MaxCalls - 2)
    \/ NextRegistry
    \/ \E w \in Workers, h \in 1 .. MaxCalls, k \in Workers :
          CountPushSend(w, h, k)
    \/ \E w \in Workers : CountPushEvent(w)
    \/ \E w \in Workers : CountPushBuzz(w)
    \/ \E w \in Workers, h \in 1 .. MaxCalls : CountPull(w, h)
    \/ \E w \in Workers : Receive(w)
    \/ \E w \in Workers : ReceiveStep(w)

EventSpec == Init /\ [][NextEvent]_vars

Parts == {"sends", "recv"}

\* Workers that also destroy endpoints, and make one allocate call less.
NextDrop ==
    \/ \E w \in Workers, c \in ChanIds, T \in Types :
          CallWithin(w, c, T, MaxCalls - 1)
    \/ NextRegistry
    \/ NextEndpoints
    \/ \E w \in Workers, h \in 1 .. MaxCalls, part \in Parts : Drop(w, h, part)

DropSpec == Init /\ [][NextDrop]_vars

\* ------------------------------------------------------------------ helpers

AllocPcs == {"lock", "entry", "construct", "downcast", "take", "remove", "wrap"}
\* Positions at which the worker holds the MutexGuard.
CriticalPcs == AllocPcs \ {"lock"}

Built(w) == pc[w] \notin {"send", "recv"}

\* The bundles worker w holds: indices into held[w].
Held(w) == 1 .. Len(held[w])
\* The queues the producer handles of a bundle feed, in handle order.
Targets(b) == [i \in 1 .. Len(b.sends) |-> b.sends[i].pusher.target]
\* The queue a bundle's consumer reads.
Source(b) == b.recv.puller.source
\* The payloads of a yielded history.
Vals(ys) == [i \in 1 .. Len(ys) |-> ys[i].val]
\* The messages of s that worker k sent, in order.
From(s, k) == LET Test(m) == m.from = k IN SelectSeq(s, Test)
IsPrefix(s, t) == Len(s) <= Len(t) /\ \A i \in 1 .. Len(s) : s[i] = t[i]
\* Number of allocate(c) calls worker w has made.
CallsOn(w, c) == Cardinality({i \in 1 .. Len(calls[w]) : calls[w][i].id = c})
\* Every worker has called allocate(c) at most once.
OnceEach(c) == \A w \in Workers : CallsOn(w, c) <= 1

\* ------------------------------------------------------------------- claims

\* C1: once every worker has called allocate(c) exactly once and the calls
\* have returned, each worker holds one bundle for c with exactly `peers`
\* producer handles and one consumer; whatever is pushed through handle k of
\* any bundle is yielded by worker k only, each message at most once and no
\* message lost (history = yielded ++ pending); a consumer nobody pushed to
\* has yielded absent on every pull.
C1_Routing ==
    /\ \A c \in ChanIds :
          (OnceEach(c) /\ \A w \in Workers : CallsOn(w, c) = 1 /\ pc[w] = "ready")
          => \A w \in Workers :
                /\ Cardinality({h \in Held(w) : held[w][h].id = c}) = 1
                /\ \A h \in Held(w) : Len(held[w][h].sends) = peers
    /\ \A j \in Workers : \A h \in Held(j) : \A k \in Workers :
          \A i \in 1 .. Len(yielded[Targets(held[j][h])[k + 1]]) :
              yielded[Targets(held[j][h])[k + 1]][i].by = k
    /\ \A q \in 1 .. Len(queues) : pushed[q] = Vals(yielded[q]) \o queues[q]
    /\ \A w \in Workers : \A h \in Held(w) :
          pushed[Source(held[w][h])] = << >>
          => /\ held[w][h].recv.puller.current = None
             /\ yielded[Source(held[w][h])] = << >>

\* C1 witness: two workers allocated c once each, worker 0 pushed through its
\* handle 1, worker 1's consumer yielded that message, and nothing was ever
\* pushed to worker 0's own consumer.
C1_Witness ==
    /\ peers = 2
    /\ \A w \in Workers : Len(calls[w]) = 1 /\ Len(held[w]) = 1
    /\ Len(yielded[Targets(held[0][1])[2]]) = 1
    /\ yielded[Targets(held[0][1])[2]][1] = [by |-> 1, val |-> [from |-> 0, n |-> 1]]
    /\ held[1][1].recv.puller.current = Some([from |-> 0, n |-> 1])
    /\ pushed[Source(held[0][1])] = << >>

\* C2: for every queue and every sender k, the messages of k that the
\* consumer has yielded are, in order, a prefix of the messages k pushed.
C2_PairFifo ==
    \A q \in 1 .. Len(queues) : \A k \in Workers :
        IsPrefix(From(Vals(yielded[q]), k), From(pushed[q], k))

\* C2 witness: a queue into which sender 0 pushed, then sender 1, then
\* sender 0 again, and whose consumer has yielded both messages of sender 0.
C2_Witness ==
    \E q \in 1 .. Len(queues) :
        /\ Len(pushed[q]) = 3
        /\ pushed[q][1].from = 0 /\ pushed[q][2].from = 1 /\ pushed[q][3].from = 0
        /\ Len(yielded[q]) = 3

\* The bundle b was taken from the entry e: they name the same queues.
FromEntry(b, e) ==
    \E i \in 1 .. Len(e.vector) :
        /\ IsSome(e.vector[i])
        /\ Unwrap(e.vector[i]).sends[1].target = Targets(b)[1]
\* The queues a bundle's endpoints are connected to.
Queues(b) == {Targets(b)[i] : i \in 1 .. Len(b.sends)} \cup {Source(b)}
\* Worker w's step ends its allocate call.
Completes(w) == pc[w] \in AllocPcs /\ pc'[w] \notin AllocPcs
\* Worker w's step fails with `kind` and hands w nothing.
FailsWith(w, kind) ==
    pc'[w] = "failed" /\ err'[w] = kind /\ held'[w] = held[w]
\* Worker w is inside allocate(c) and the registry has an entry for c built
\* for another payload type.
Mismatched(w) ==
    /\ pc[w] \in AllocPcs
    /\ IsSome(channels[arg[w].id])
    /\ Unwrap(channels[arg[w].id]).ty # arg[w].ty

\* C3 as claimed: every finished allocate(c) that is not the worker's first
\* for c failed with SlotAlreadyConsumed and returned no endpoints.
C3_Original ==
    \A w \in Workers : \A j \in 2 .. Len(calls[w]) :
        ( /\ \E i \in 1 .. (j - 1) : calls[w][i].id = calls[w][j].id
          /\ (j < Len(calls[w]) \/ pc[w] \notin AllocPcs) )
        => err[w] = "SlotAlreadyConsumed" /\ Len(held[w]) < j

\* Worker w is inside a repeated allocate(c): it has called allocate(c)
\* before.
Repeated(w) == pc[w] \in AllocPcs /\ CallsOn(w, arg[w].id) >= 2

\* Some entry an earlier allocate(c) of w took its slot from is still the
\* entry of c.
EarlierLive(w) ==
    /\ IsSome(channels[arg[w].id])
    /\ \E h \in Held(w) :
          /\ held[w][h].id = arg[w].id
          /\ FromEntry(held[w][h], Unwrap(channels[arg[w].id]))

\* Worker w's step returns a bundle whose queues none of the bundles it
\* held before is connected to.
ReturnsFresh(w) ==
    /\ pc[w] = "wrap"
    /\ pc'[w] = "ready"
    /\ Len(held'[w]) = Len(held[w]) + 1
    /\ held'[w][Len(held'[w])].id = arg[w].id
    /\ \A h \in Held(w) :
          Queues(held'[w][Len(held'[w])]) \cap Queues(held[w][h]) = {}

\* C3 amended: a repeated allocate(c) that reaches the slot take while the
\* entry an earlier call of the worker took from is still in the registry
\* fails with SlotAlreadyConsumed and returns no endpoints.  A repeated
\* allocate(c) that ends when every such entry has been removed never fails
\* with SlotAlreadyConsumed: it returns a bundle over queues of a newer
\* entry, or fails with RegistryLockCorrupted on a poisoned Mutex, or fails
\* with TypeMismatch at the downcast of a newer entry built for another
\* payload type.
C3_SecondCallLive ==
    /\ [][\A w \in Workers :
              ( /\ pc[w] = "take"
                /\ pc'[w] # "take"
                /\ EarlierLive(w) )
              => FailsWith(w, "SlotAlreadyConsumed")]_vars
    /\ [][\A w \in Workers :
              (Repeated(w) /\ Completes(w) /\ ~EarlierLive(w))
              => \/ ReturnsFresh(w)
                 \/ (poisoned /\ pc[w] = "lock"
                     /\ FailsWith(w, "RegistryLockCorrupted"))
                 \/ (~poisoned /\ pc[w] = "downcast" /\ Mismatched(w)
                     /\ FailsWith(w, "TypeMismatch"))]_vars

\* C3 witness: a worker's second allocate of an id, made after the entry
\* was drained and removed, returned a second bundle, and its third ended in
\* SlotAlreadyConsumed while the newer entry was still in the registry.
C3_Witness ==
    \E w \in Workers :
        /\ err[w] = "SlotAlreadyConsumed"
        /\ Len(calls[w]) = 3
        /\ calls[w][1].id = calls[w][2].id /\ calls[w][2].id = calls[w][3].id
        /\ Len(held[w]) = 2
        /\ IsSome(channels[calls[w][3].id])

\* A worker's second allocate of an id, made after the entry of its first
\* was removed, found a newer entry of another payload type and failed.
C3_RebuiltOtherType ==
    \E w \in Workers :
        /\ err[w] = "TypeMismatch"
        /\ Len(calls[w]) = 2
        /\ calls[w][1].id = calls[w][2].id
        /\ Len(held[w]) = 1
        /\ IsSome(channels[calls[w][2].id])
        /\ ~FromEntry(held[w][1], Unwrap(channels[calls[w][2].id]))

\* C4 as claimed: every allocate(c) call that ends while the registry holds
\* an entry for c of another payload type ends in TypeMismatch, with no
\* endpoints returned.
C4_Original ==
    [][\A w \in Workers :
          (Completes(w) /\ Mismatched(w)) => FailsWith(w, "TypeMismatch")]_vars

\* C4 amended: such a call ends without endpoints, in TypeMismatch at the
\* downcast, or in RegistryLockCorrupted at the lock when an earlier failure
\* poisoned the Mutex; it never gets past the downcast, and bundles that
\* share a queue were all handed out for one payload type.
C4_Mismatch ==
    [][/\ \A w \in Workers :
            (Completes(w) /\ Mismatched(w))
            => \/ (~poisoned /\ pc[w] = "downcast" /\ FailsWith(w, "TypeMismatch"))
               \/ (poisoned /\ pc[w] = "lock" /\ FailsWith(w, "RegistryLockCorrupted"))
       /\ \A w \in Workers : Mismatched(w) => pc[w] \in {"lock", "entry", "downcast"}
       /\ \A v, w \in Workers : \A g \in Held(v), h \in Held(w) :
            Queues(held[v][g]) \cap Queues(held[w][h]) # {}
            => held[v][g].ty = held[w][h].ty]_vars

\* C4 witness: a worker that asked for a live entry with another type and
\* ended in TypeMismatch, the entry still being in the registry.
C4_Witness ==
    \E w \in Workers :
        /\ err[w] = "TypeMismatch"
        /\ IsSome(channels[calls[w][Len(calls[w])].id])
        /\ Unwrap(channels[calls[w][Len(calls[w])].id]).ty # calls[w][Len(calls[w])].ty

\* Some allocate call has ended in TypeMismatch.
MismatchSeen == \E v \in Workers : err[v] = "TypeMismatch"

\* C5 as claimed: the failing call leaves the table as it was, and after it
\* no allocate(c) of a worker whose slot is still available, made with the
\* entry's own type, ends in failure.
C5_Original ==
    [][/\ \A w \in Workers :
            (pc[w] = "downcast" /\ pc'[w] = "failed") => channels' = channels
       /\ \A w \in Workers :
            ( /\ MismatchSeen
              /\ Completes(w)
              /\ IsSome(channels[arg[w].id])
              /\ Unwrap(channels[arg[w].id]).ty = arg[w].ty
              /\ IsSome(At(Unwrap(channels[arg[w].id]).vector, w)) )
            => pc'[w] # "failed"]_vars

\* C5 amended: the failing call leaves the table as it was and poisons the
\* Mutex; from then on the table never changes, so every slot that was
\* available stays available, but every allocate call that ends, ends in
\* RegistryLockCorrupted and returns no bundle.
C5_AfterMismatch ==
    [][/\ \A w \in Workers :
            (pc[w] = "downcast" /\ pc'[w] = "failed")
            => channels' = channels /\ poisoned'
       /\ MismatchSeen
            => /\ channels' = channels
               /\ \A w \in Workers :
                    Completes(w) => FailsWith(w, "RegistryLockCorrupted")]_vars

\* C5 witness: after a TypeMismatch another worker, whose slot of the entry
\* is still available, asked for the entry's own type and ended in
\* RegistryLockCorrupted.
C5_Witness ==
    \E v, w \in Workers :
        /\ err[v] = "TypeMismatch"
        /\ err[w] = "RegistryLockCorrupted"
        /\ LET a == calls[w][Len(calls[w])]
           IN  /\ IsSome(channels[a.id])
               /\ Unwrap(channels[a.id]).ty = a.ty
               /\ IsSome(At(Unwrap(channels[a.id]).vector, w))

\* C6: whenever no worker holds the registry Mutex, no entry of the registry
\* has all of its slots consumed.
C6_NoDrainedEntry ==
    lock = NoOne =>
        \A c \in ChanIds :
            IsSome(channels[c]) => ~AllNone(Unwrap(channels[c]).vector)

\* C6 witness: both workers have taken their slot of the one construction
\* for c, nobody is in the critical section, and c is absent from the table.
C6_Witness ==
    \E c \in ChanIds :
        /\ peers = 2
        /\ lock = NoOne
        /\ constructed[c] = 1
        /\ \A w \in Workers : \E h \in Held(w) : held[w][h].id = c
        /\ channels[c] = None

\* C7: when every worker calls allocate(c) at most once, the construction
\* closure runs at most once for c, and exactly once as
\* soon as any call is past the entry lookup; every entry in the table has
\* `peers` slots, and every available slot a complete bundle: `peers`
\* producers and the consumer of its own index.
C7_ConstructOnce ==
    /\ \A c \in ChanIds :
          OnceEach(c) =>
              /\ constructed[c] <= 1
              /\ ( \/ \E w \in Workers :
                        pc[w] \in {"downcast", "take", "remove", "wrap"} /\ arg[w].id = c
                   \/ \E w \in Workers : \E h \in Held(w) : held[w][h].id = c )
                 => constructed[c] = 1
    /\ \A c \in ChanIds :
          IsSome(channels[c]) =>
              LET vector == Unwrap(channels[c]).vector
              IN  /\ Len(vector) = peers
                  /\ \A i \in Workers :
                        IsSome(At(vector, i)) =>
                            LET b == Unwrap(At(vector, i))
                            IN  /\ Len(b.sends) = peers
                                /\ b.recv.source = At(b.sends, i).target

\* C7 witness: two workers are inside allocate(c) at once, one holding the
\* Mutex after constructing, the other waiting for it.
C7_Witness ==
    \E c \in ChanIds :
        /\ peers = 2
        /\ OnceEach(c)
        /\ constructed[c] = 1
        /\ \E v, w \in Workers :
              /\ pc[v] = "downcast" /\ arg[v].id = c /\ vacant[v]
              /\ pc[w] = "lock" /\ arg[w].id = c

\* Every construction for c has been taken by all workers and no allocate(c)
\* is under way between its take and its return.
Drained(c) ==
    /\ constructed[c] > 0
    /\ \A w \in Workers :
          Cardinality({h \in Held(w) : held[w][h].id = c}) = constructed[c]
    /\ \A w \in Workers : pc[w] \in {"take", "remove", "wrap"} => arg[w].id # c

\* C8: an allocate(c) that looks c up after c was fully drained finds it
\* absent; a call that found c absent constructs an entry of the caller's
\* type with `peers` available slots over queues that did not exist before,
\* and does not fail; bundles for one id handed out for different payload
\* types have no queue in common.
C8_ReuseAfterDrain ==
    [][/\ \A w \in Workers :
            (pc[w] = "entry" /\ Drained(arg[w].id) /\ pc'[w] # "entry")
            => pc'[w] = "construct"
       /\ \A w \in Workers :
            (pc[w] = "construct" /\ pc'[w] # "construct")
            => LET e == Unwrap(channels'[arg[w].id])
               IN  /\ e.ty = arg[w].ty
                   /\ Len(e.vector) = peers
                   /\ \A i \in 1 .. Len(e.vector) :
                         /\ IsSome(e.vector[i])
                         /\ Unwrap(e.vector[i]).recv.source > Len(queues)
                         /\ \A k \in 1 .. peers :
                               Unwrap(e.vector[i]).sends[k].target > Len(queues)
       /\ \A w \in Workers :
            (vacant[w] /\ pc[w] \in CriticalPcs) => pc'[w] # "failed"
       /\ \A v, w \in Workers : \A g \in Held(v), h \in Held(w) :
            (held[v][g].id = held[w][h].id /\ held[v][g].ty # held[w][h].ty)
            => Queues(held[v][g]) \cap Queues(held[w][h]) = {}]_vars

\* C8 witness: two workers drained c with one type, and a worker then got a
\* second bundle for c with another type.
C8_Witness ==
    \E c \in ChanIds : \E w \in Workers :
        /\ peers = 2
        /\ constructed[c] = 2
        /\ Len(held[w]) = 2
        /\ held[w][1].id = c /\ held[w][2].id = c
        /\ held[w][1].ty # held[w][2].ty

\* C9: under fair scheduling of the build steps every worker's build ends.
C9_BuildCompletes == <>(\A w \in Workers : Built(w))

\* C9 witness: all workers of the largest configuration have sent their
\* buzzers and ended their build.
C9_Witness ==
    /\ peers = MaxPeers
    /\ \A w \in Workers : Built(w) /\ bsent[w] = peers /\ Len(buzzers[w]) = peers

\* C10: once a worker's build has ended, its buzzer list has `peers`
\* entries, and entry i is a buzzer worker i created: its wake target is i,
\* and it is the one i made for this worker.
C10_BuzzerSymmetry ==
    \A j \in Workers :
        Built(j) =>
            /\ Len(buzzers[j]) = peers
            /\ \A i \in Workers :
                  /\ At(buzzers[j], i).target = i
                  /\ At(buzzers[j], i) = BuzzerNew(i, j)

\* C10 witness: the exchange has ended for two workers.
C10_Witness ==
    /\ peers = 2
    /\ \A w \in Workers : Built(w)
    /\ \A ch \in DOMAIN buzzq : buzzq[ch] = << >>
\* ------------------------------------------------------------------- C11
\* Worker w holds a usable consumer (producer handles) as its h-th bundle.
CanPull(w, h) ==
    pc[w] = "ready" /\ h \in Held(w) /\ << h, "recv" >> \notin dropped[w]
CanPush(w, h) ==
    pc[w] = "ready" /\ h \in Held(w) /\ << h, "sends" >> \notin dropped[w]

\* What one pull by w on its h-th consumer does.
PullEffect(w, h) ==
    LET q == Source(held[w][h])
        current == held'[w][h].recv.puller.current
    IN  /\ \A p \in DOMAIN queues : p # q => queues'[p] = queues[p]
        /\ IF queues[q] = << >>
             THEN current = None /\ queues'[q] = queues[q]
             ELSE /\ current = Some(Head(queues[q]))
                  /\ queues'[q] = Tail(queues[q])
                  /\ yielded'[q] = Append(yielded[q],
                                          [by |-> w, val |-> Head(queues[q])])

\* What one push by w on handle k of its h-th bundle does, while the
\* destination consumer exists.
PushEffect(w, h, k) ==
    LET q == Targets(held[w][h])[k + 1]
        m == [from |-> w, n |-> npush + 1]
    IN  /\ \A p \in DOMAIN queues : p # q => queues'[p] = queues[p]
        /\ err' = err
        /\ IF npush' # npush
             THEN /\ queues'[q] = Append(queues[q], m)
                  /\ push(queues[q], Some(m), TRUE).element = None
             ELSE /\ queues' = queues
                  /\ push(queues[q], None, TRUE).element = None

\* C11: pull never blocks; with nothing pending it returns None, leaves
\* `current` None and the queue as it was, and with messages pending it
\* removes exactly the oldest one and returns it.  push with Some(m) appends
\* exactly m to the destination queue and leaves the caller's option None;
\* push with None changes nothing.
C11_PushPull ==
    /\ [](\A w \in Workers : \A h \in 1 .. MaxCalls :
              CanPull(w, h) => ENABLED Pull(w, h))
    /\ [][\A w \in Workers : \A h \in 1 .. MaxCalls :
              Pull(w, h) => PullEffect(w, h)]_vars
    /\ [][\A w \in Workers : \A h \in 1 .. MaxCalls : \A k \in Workers :
              Push(w, h, k) => PushEffect(w, h, k)]_vars

\* A consumer that has just yielded the oldest of several pending messages,
\* and another that found nothing after messages were exchanged.
C11_Witness ==
    /\ \E w \in Workers : \E h \in Held(w) :
          /\ IsSome(held[w][h].recv.puller.current)
          /\ queues[Source(held[w][h])] # << >>
    /\ \E q \in DOMAIN queues : queues[q] = << >> /\ yielded[q] # << >>

\* ------------------------------------------------------------------- C13
\* Worker w's step ends its thread with ChannelDisconnected.
Disconnects(w) ==
    pc'[w] = "failed" /\ err'[w] = "ChannelDisconnected" /\ pc[w] # "failed"

\* A push of Some(m) whose destination consumer is destroyed panics.
PushToDestroyed ==
    \A w \in Workers : \A h \in 1 .. MaxCalls : \A k \in Workers :
        (/\ Push(w, h, k)
         /\ npush' # npush
         /\ ~RxAlive(Targets(held[w][h])[k + 1])) => Disconnects(w)

\* (C13 as stated) every push toward a destroyed consumer and every pull on
\* a consumer whose producers are all destroyed ends the caller with
\* ChannelDisconnected.
C13_Original ==
    /\ [][PushToDestroyed]_vars
    /\ [][\A w \in Workers : \A h \in 1 .. MaxCalls :
              (Pull(w, h) /\ ~TxAlive(Source(held[w][h]))) => Disconnects(w)]_vars

\* C13: a push of Some(m) whose destination consumer was destroyed ends the
\* caller with ChannelDisconnected, and nothing else does; a pull on a
\* consumer whose producers are all destroyed never fails: it yields the
\* messages still pending, oldest first, and None once there is none.
C13_Disconnected ==
    /\ [][PushToDestroyed]_vars
    /\ [][\A w \in Workers :
              Disconnects(w) =>
                  \E h \in 1 .. MaxCalls : \E k \in Workers :
                      /\ Push(w, h, k)
                      /\ ~RxAlive(Targets(held[w][h])[k + 1])]_vars
    /\ [][\A w \in Workers : \A h \in 1 .. MaxCalls :
              (Pull(w, h) /\ ~TxAlive(Source(held[w][h]))) =>
                  (PullEffect(w, h) /\ pc' = pc /\ err' = err)]_vars

\* A worker ended by a push toward a destroyed consumer, and a consumer
\* whose producers are all destroyed that has yielded a message.
C13_Witness ==
    /\ \E w \in Workers : err[w] = "ChannelDisconnected"
    /\ \E w \in Workers : \E h \in Held(w) :
          /\ ~TxAlive(Source(held[w][h]))
          /\ << h, "recv" >> \notin dropped[w]
          /\ IsSome(held[w][h].recv.puller.current)

\* ------------------------------------------------------------------- C12
\* Largest number of queues the allocate calls can make.
MaxQueues == MaxCalls * MaxPeers

\* Worker w holds the consumer of queue q.
Consumes(w, q) == \E h \in Held(w) : Source(held[w][h]) = q

\* The n-th message pushed into queue q has been yielded by w's consumer.
YieldedNth(w, q, n) ==
    /\ q \in DOMAIN yielded
    /\ Len(yielded[q]) >= n
    /\ yielded[q][n] = [by |-> w, val |-> pushed[q][n]]

\* C12: a value pushed toward worker w's consumer of a channel is
\* eventually yielded by that consumer, as long as w keeps pulling (its
\* thread has not failed), whoever pushed it (w itself included).
C12_EventuallyYielded ==
    \A w \in 0 .. (MaxPeers - 1) : \A q \in 1 .. MaxQueues :
      \A n \in 1 .. MaxPush :
        (/\ w \in Workers
         /\ q \in DOMAIN queues
         /\ Consumes(w, q)
         /\ Len(pushed[q]) >= n)
            ~> (YieldedNth(w, q, n) \/ (w \in Workers /\ pc[w] = "failed"))

\* Two workers: one has yielded a message the other pushed and a message
\* it pushed itself.
C12_Witness ==
    \E w \in Workers : \E q \in DOMAIN queues :
        /\ Consumes(w, q)
        /\ \E n \in 1 .. Len(yielded[q]) :
              YieldedNth(w, q, n) /\ pushed[q][n].from = w
        /\ \E n \in 1 .. Len(yielded[q]) :
              YieldedNth(w, q, n) /\ pushed[q][n].from # w

\* ------------------------------------------------------------------- C14
\* The bundles for channel c that worker w holds.
BundlesOf(w, c) == {h \in Held(w) : held[w][h].id = c}

\* What a constructed vector connects: per slot, the queue and the thread
\* woken by each pusher, and the queue of the puller.  Buzzers made by
\* different Buzzer::new() calls of one thread wake the same thread.
Wiring(vector) ==
    [i \in 1 .. Len(vector) |->
        [sends |-> [k \in 1 .. Len(Unwrap(vector[i]).sends) |->
                       [target |-> Unwrap(vector[i]).sends[k].target,
                        wakes |-> Unwrap(vector[i]).sends[k].buzzer.target]],
         recv |-> Unwrap(vector[i]).recv.source]]

\* C14: whichever worker runs the construction, the entry it would insert
\* connects the same queues and wakes the same threads; and when every worker calls allocate(c) at most once, producer
\* handle i of every bundle for c feeds the one queue worker i's consumer
\* reads, is paired with worker i's buzzer and counts into worker i's
\* counters inbox, and the consumer records into its own worker's events.
C14_RaceBenign ==
    /\ \A w \in Workers : \A v \in Workers :
          (Built(w) /\ Built(v))
          => Wiring(to_box(w, FreshBase(queues)))
                 = Wiring(to_box(v, FreshBase(queues)))
    /\ \A c \in ChanIds : OnceEach(c) =>
          \A w \in Workers : \A h \in BundlesOf(w, c) :
              /\ held[w][h].recv.events = w
              /\ held[w][h].recv.index = c
              /\ \A i \in Workers :
                    /\ At(held[w][h].sends, i).index = c
                    /\ At(held[w][h].sends, i).counters = i
                    /\ At(held[w][h].sends, i).buzzer.target = i
                    /\ \A g \in BundlesOf(i, c) :
                          Targets(held[w][h])[i + 1] = Source(held[i][g])

\* Two workers hold their bundles of a channel each has allocated once.
C14_Witness ==
    /\ peers = 2
    /\ \E c \in ChanIds :
          /\ OnceEach(c)
          /\ \A w \in Workers : BundlesOf(w, c) # {}

\* ------------------------------------------------------------------- C17
\* Some allocate call has failed while it held the MutexGuard.
FailedInside ==
    \E v \in Workers : err[v] \in {"TypeMismatch", "SlotAlreadyConsumed"}

\* C17: once an allocate call has failed with TypeMismatch or
\* SlotAlreadyConsumed, the Mutex is poisoned and free; from then on no
\* worker enters the critical section, every allocate call that ends fails
\* with RegistryLockCorrupted and returns nothing, and `channels` never
\* changes.
C17_Poisoned ==
    /\ [](FailedInside => (poisoned /\ lock = NoOne))
    /\ [][FailedInside =>
            /\ channels' = channels
            /\ held' = held
            /\ \A w \in Workers : pc'[w] \notin CriticalPcs
            /\ \A w \in Workers :
                  Completes(w) => FailsWith(w, "RegistryLockCorrupted")]_vars

\* A call failed with SlotAlreadyConsumed, and a call made by another worker
\* failed with RegistryLockCorrupted.
C17_Witness ==
    \E v \in Workers : \E w \in Workers :
        /\ err[v] = "SlotAlreadyConsumed"
        /\ err[w] = "RegistryLockCorrupted"

\* ------------------------------------------------------------------- C19
\* The consumer of queue q is in slot j of c's entry, not taken yet.
InSlot(q, c, j) ==
    /\ IsSome(channels[c])
    /\ IsSome(At(Unwrap(channels[c]).vector, j))
    /\ Unwrap(At(Unwrap(channels[c]).vector, j)).recv.source = q

\* C19: a push of Some(m) toward a consumer that is still in its worker's
\* untaken registry slot does not fail and appends m; while the consumer is
\* in the slot nothing pushed to it is yielded or lost; and what the
\* consumer's worker pulls after taking it is, message by message, what was
\* pushed, in push order.
C19_ParkedConsumer ==
    /\ [][\A w \in Workers : \A h \in 1 .. MaxCalls : \A k \in Workers :
              (/\ Push(w, h, k)
               /\ npush' # npush
               /\ InSlot(Targets(held[w][h])[k + 1], held[w][h].id, k))
              => /\ pc'[w] = "ready"
                 /\ err' = err
                 /\ queues'[Targets(held[w][h])[k + 1]] =
                        Append(queues[Targets(held[w][h])[k + 1]],
                               [from |-> w, n |-> npush + 1])]_vars
    /\ [](\A q \in DOMAIN queues : \A c \in ChanIds : \A j \in Workers :
              InSlot(q, c, j) => (yielded[q] = << >> /\ queues[q] = pushed[q]))
    /\ [](\A j \in Workers : \A h \in Held(j) :
              LET q == Source(held[j][h])
              IN  /\ IsPrefix(Vals(yielded[q]), pushed[q])
                  /\ \A i \in 1 .. Len(yielded[q]) : yielded[q][i].by = j
                  /\ << h, "recv" >> \notin dropped[j]
                     => pushed[q] = Vals(yielded[q]) \o queues[q])

\* Worker j has not called allocate(c), and two messages of one sender are
\* pending for the consumer in its slot.
C19_Witness ==
    \E q \in DOMAIN queues : \E c \in ChanIds : \E j \in Workers :
        /\ InSlot(q, c, j)
        /\ CallsOn(j, c) = 0
        /\ Len(queues[q]) = 2
        /\ queues[q][1].from = queues[q][2].from

\* ------------------------------------------------------------------- C18
\* The bundles for channel c worker w holds, in the order of its calls.
Rounds(w, c) == LET Test(b) == b.id = c IN SelectSeq(held[w], Test)

NoFailure == \A w \in Workers : pc[w] # "failed"

\* C18: while no worker has failed, the r-th bundles for c of any two
\* workers come from one construction (the same producer targets, each
\* consumer reading the queue the other's handle for it feeds), at most as
\* many rounds exist as constructions of c, and bundles of different rounds
\* share no queue.
C18_Generations ==
    NoFailure =>
        \A c \in TableIds : \A w \in Workers : \A v \in Workers :
            /\ Len(Rounds(w, c)) <= constructed[c]
            /\ \A r \in 1 .. Len(Rounds(w, c)) : \A s \in 1 .. Len(Rounds(v, c)) :
                  IF r = s
                    THEN /\ Targets(Rounds(w, c)[r]) = Targets(Rounds(v, c)[s])
                         /\ Source(Rounds(v, c)[s]) =
                                Targets(Rounds(w, c)[r])[v + 1]
                    ELSE Queues(Rounds(w, c)[r]) \cap Queues(Rounds(v, c)[s])
                             = {}

\* Two workers have each allocated one channel twice, without a failure.
C18_Witness ==
    /\ peers = 2
    /\ NoFailure
    /\ \E c \in TableIds : \A w \in Workers : Len(Rounds(w, c)) = 2

\* ------------------------------------------------------------------- C20
\* The workers that hold the MutexGuard by their position.
Inside == {w \in Workers : pc[w] \in CriticalPcs}

\* The change of d's entry in a step is one worker i, holder of the lock and
\* inside allocate(d), may make: the creation of the entry with every slot
\* available, the removal of the entry with every slot taken, or the taking
\* of slot i alone.
OwnSlotOnly(d) ==
    \E i \in Workers :
        /\ lock = i
        /\ arg[i].id = d
        /\ \/ /\ ~IsSome(channels[d])
              /\ IsSome(channels'[d])
              /\ \A j \in Workers : IsSome(At(Unwrap(channels'[d]).vector, j))
           \/ /\ IsSome(channels[d])
              /\ ~IsSome(channels'[d])
              /\ AllNone(Unwrap(channels[d]).vector)
           \/ /\ IsSome(channels[d])
              /\ IsSome(channels'[d])
              /\ Unwrap(channels'[d]).ty = Unwrap(channels[d]).ty
              /\ At(Unwrap(channels'[d]).vector, i) = None
              /\ \A j \in Workers \ {i} :
                    At(Unwrap(channels'[d]).vector, j) =
                        At(Unwrap(channels[d]).vector, j)

\* C20: at most one worker is in the critical section, and it is the holder
\* of the lock; every allocate call eventually returns or fails; and every
\* change of the table is made by the lock holder to the entry of the id it
\* asked for, and is the entry's creation, its removal, or the taking of the
\* holder's own slot.
C20_OwnSlot ==
    /\ [](Cardinality(Inside) <= 1 /\ \A w \in Inside : lock = w)
    /\ \A w \in 0 .. (MaxPeers - 1) :
          (w \in Workers /\ pc[w] \in AllocPcs)
              ~> (w \in Workers /\ pc[w] \notin AllocPcs)
    /\ [][\A d \in TableIds :
              channels'[d] # channels[d] => OwnSlotOnly(d)]_vars

\* One worker is in the critical section of allocate(c) while another waits
\* for the lock to allocate a different id whose entry has a slot taken
\* and a slot available.
C20_Witness ==
    \E i \in Workers : \E j \in Workers :
        /\ pc[i] \in CriticalPcs
        /\ pc[j] = "lock"
        /\ arg[i].id # arg[j].id
        /\ IsSome(channels[arg[j].id])
        /\ ~IsSome(At(Unwrap(channels[arg[j].id]).vector, i))
        /\ IsSome(At(Unwrap(channels[arg[j].id]).vector, j))

\* ------------------------------------------------------------------- C15
\* What worker w's running (or last) receive has appended to its event queue.
Moved(w) ==
    SubSeq(events[w], Len(Unwrap(drainlog[w]).events) + 1, Len(events[w]))

\* No pair occurs twice in s.
NoDuplicate(s) == \A a \in 1 .. Len(s) : \A b \in 1 .. Len(s) :
                      s[a] = s[b] => a = b

\* C15: receive never blocks; while it runs, the event queue is what it was
\* at the call followed by the pairs taken from the inbox, and these
\* followed by the inbox begin with the inbox as it was at the call; when it
\* returns the inbox is empty and no pair was moved twice; and no step of
\* receive changes another worker's inbox or event queue.
C15_Drain ==
    /\ [](\A w \in Workers :
              /\ pc[w] = "ready" => ENABLED Receive(w)
              /\ pc[w] = "drain" => ENABLED ReceiveStep(w))
    /\ [](\A w \in Workers : pc[w] = "drain" =>
              /\ IsPrefix(Unwrap(drainlog[w]).events, events[w])
              /\ IsPrefix(Unwrap(drainlog[w]).inbox, Moved(w) \o counters[w]))
    /\ [][\A w \in Workers : (pc[w] = "drain" /\ pc'[w] = "ready") =>
              /\ counters[w] = << >>
              /\ events'[w] = events[w]
              /\ IsPrefix(Unwrap(drainlog[w]).events
                              \o Unwrap(drainlog[w]).inbox, events[w])
              /\ NoDuplicate(events[w])]_vars
    /\ [][\A w \in Workers : (Receive(w) \/ ReceiveStep(w)) =>
              \A v \in Workers \ {w} :
                  counters'[v] = counters[v] /\ events'[v] = events[v]]_vars

\* A receive has returned after moving two pairs, in inbox order, behind an
\* event that was in the queue before.
C15_Witness ==
    \E w \in Workers :
        /\ pc[w] = "ready"
        /\ IsSome(drainlog[w])
        /\ Unwrap(drainlog[w]).events # << >>
        /\ Len(Unwrap(drainlog[w]).inbox) = 2
        /\ events[w] = Unwrap(drainlog[w]).events \o Unwrap(drainlog[w]).inbox
        /\ counters[w] = << >>

====
